---- MODULE Spec2Model ----
(***************************************************************************)
(* A model of the Bitacora ingestion / sealing / notarization pipeline:    *)
(* the append-only Merkle engine (common/merkle.rs), the in-memory storage *)
(* backend (storage/in_memory.rs), the coordinator (state/bitacora.rs),    *)
(* the Ethereum timestamper (web3/ethereum.rs) and the read path           *)
(* (web3/traits.rs, handlers/post_verify_flight_data.rs).                  *)
(*                                                                         *)
(* Byte strings are sequences of naturals.  A hash function is modelled as *)
(* an injective, self-delimiting encoding of its pre-image, so that equal  *)
(* hashes mean equal pre-images (collisions are outside the model) while a *)
(* leaf hash and a pair hash are still values of the same function.        *)
(***************************************************************************)
EXTENDS Integers, Sequences, FiniteSets, TLC

\* ------------------------------------------------------------------ bounds
MaxLeaves == 8
MaxLimit == 2
MaxRecords == 3
MaxIngest == 12
Window == 3

\* ------------------------------------------------------- program constants
DATASET_DEFAULT_LIMIT == 10
FLIGHT_DATA_ID_PREFIX == 1

\* ------------------------------------------------------------ Option type
None == <<>>
Some(x) == <<x>>
IsSome(o) == o # <<>>
Unwrap(o) == o[1]

\* ------------------------------------------------------------- byte codec
RECURSIVE BE(_, _)
\* n.to_be_bytes() of a w-byte unsigned integer
BE(n, w) == IF w = 0 THEN <<>> ELSE BE(n \div 256, w - 1) \o <<n % 256>>

RECURSIVE LessFrom(_, _, _)
\* the lexicographic comparison of a and b from position i on
LessFrom(a, b, i) ==
    IF i > Len(b) THEN FALSE
    ELSE IF i > Len(a) THEN TRUE
    ELSE IF a[i] < b[i] THEN TRUE
    ELSE IF a[i] > b[i] THEN FALSE
    ELSE LessFrom(a, b, i + 1)

\* derived PartialOrd of a byte array: lexicographic
SeqLess(a, b) == LessFrom(a, b, 1)

\* Keccak-256 of a byte string
Keccak256(data) == <<Len(data)>> \o data

\* SHA-256 of a byte string
Sha256(data) == <<Len(data)>> \o data

\* bs58::encode(..).into_string(): the text form of the bytes, one symbol of
\* the alphabet (a number from Bs58Base up) per byte, so that decoding can fail
Bs58Base == 1000
Bs58(bytes) == [i \in 1..Len(bytes) |-> bytes[i] + Bs58Base]

\* ---------------------------------------------------------- Merkle engine
EmptyTree == [nodes |-> <<>>, leaves |-> <<>>]

MtAppend(t, element) == [t EXCEPT !.leaves = Append(@, Keccak256(element))]

MtIsEmpty(t) == t.nodes = <<>> /\ t.leaves = <<>>

IsRootValid(t) == Len(t.leaves) = 0 /\ Len(t.nodes) > 0

PairwiseHash(v1, v2) ==
    IF SeqLess(v1, v2) THEN Keccak256(v1 \o v2) ELSE Keccak256(v2 \o v1)

RECURSIVE ComputeLoop(_, _, _)
\* the loop of compute(): indexes are the code's 0-based ones
ComputeLoop(nodes, nodes_start_index, odd_item_index) ==
    LET nodes_end_index == Len(nodes)
        n_pairs == (nodes_end_index - nodes_start_index) \div 2
        pushed == nodes \o
            [i \in 1..n_pairs |->
                PairwiseHash(nodes[nodes_start_index + 2 * (i - 1) + 1],
                             nodes[nodes_start_index + 2 * (i - 1) + 2])]
        odd == IF odd_item_index = None /\ nodes_end_index % 2 = 1
               THEN Some(nodes_end_index - 1)
               ELSE odd_item_index
    IN  IF nodes_end_index - nodes_start_index <= 2
        THEN IF IsSome(odd)
             THEN Append(pushed,
                         PairwiseHash(pushed[Len(pushed)], pushed[Unwrap(odd) + 1]))
             ELSE pushed
        ELSE ComputeLoop(pushed, nodes_end_index, odd)

Compute(t) ==
    LET total_leaves == (Len(t.nodes) + 1) \div 2
        kept == SubSeq(t.nodes, 1, total_leaves) \o t.leaves
    IN  IF Len(kept) < 2
        THEN [nodes |-> kept, leaves |-> <<>>]
        ELSE [nodes |-> ComputeLoop(kept, 0, None), leaves |-> <<>>]

\* the tree after the lazy recomputation root(), proof() and verify() start with
Refresh(t) == IF IsRootValid(t) THEN t ELSE Compute(t)

\* a root() that answers the hash of nothing for a tree without nodes
MtRootDefault(t) ==
    LET c == Refresh(t)
    IN  [tree |-> c,
         val |-> IF c.nodes = <<>> THEN Some(Keccak256(<<>>))
                 ELSE Some(c.nodes[Len(c.nodes)])]

\* root(): the tree it leaves and the value it returns
MtRoot(t) ==
    LET c == Refresh(t)
    IN  [tree |-> c,
         val |-> IF c.nodes = <<>> THEN None ELSE Some(c.nodes[Len(c.nodes)])]

\* a verify_from_root that refuses the empty proof
VerifyFromRootNoEmpty(root, leaf, proof) ==
    LET leaf_hash == Keccak256(leaf)
        Fold[i \in 0..Len(proof)] ==
            IF i = 0 THEN leaf_hash ELSE PairwiseHash(Fold[i - 1], proof[i])
    IN  IF proof = <<>> THEN FALSE ELSE Fold[Len(proof)] = root

\* verify_from_root(root, leaf, proof)
VerifyFromRoot(root, leaf, proof) ==
    LET leaf_hash == Keccak256(leaf)
        Fold[i \in 0..Len(proof)] ==
            IF i = 0 THEN leaf_hash ELSE PairwiseHash(Fold[i - 1], proof[i])
    IN  IF proof = <<>> THEN root = leaf_hash ELSE Fold[Len(proof)] = root

RECURSIVE ILog2(_)
ILog2(n) == IF n < 2 THEN 0 ELSE 1 + ILog2(n \div 2)

RECURSIVE IsPowerOfTwo(_)
IsPowerOfTwo(n) == IF n = 1 THEN TRUE ELSE IF n < 1 \/ n % 2 = 1 THEN FALSE ELSE IsPowerOfTwo(n \div 2)

Position(nodes, h) ==
    IF \E i \in 1..Len(nodes) : nodes[i] = h
    THEN Some((CHOOSE i \in 1..Len(nodes) :
                  nodes[i] = h /\ \A j \in 1..(i - 1) : nodes[j] # h) - 1)
    ELSE None

RECURSIVE ProofLoop(_, _, _)
\* one iteration of the loop of proof() per call; s holds the loop's variables.
\* An index outside nodes is the code's panic.
ProofLoop(nodes, s, rounds) ==
    IF rounds = 0 \/ s.panic THEN s
    ELSE
    LET odd_level == (s.end_index - s.start_index) % 2 = 1
        olc == IF odd_level THEN s.odd_levels_count + 1 ELSE s.odd_levels_count
        rebalance == IF odd_level /\ olc % 2 = 0 THEN 1 ELSE 0
        oei == IF odd_level /\ olc % 2 = 1 THEN s.end_index - 1 ELSE s.odd_element_index
        pick == IF s.item_cursor % 2 = 1 THEN Some(s.item_index - 1)
                ELSE IF s.item_index < s.end_index - 1 THEN Some(s.item_index + 1)
                ELSE IF olc % 2 = 0 THEN Some(oei)
                ELSE None
        bad == IsSome(pick) /\ ~(Unwrap(pick) + 1 \in 1..Len(nodes))
        n_next_level == (s.end_index - s.start_index) \div 2
        cursor == s.item_cursor \div 2
    IN  ProofLoop(nodes,
            [start_index |-> s.end_index,
             end_index |-> s.end_index + n_next_level + rebalance,
             odd_levels_count |-> olc,
             odd_element_index |-> oei,
             item_cursor |-> cursor,
             item_index |-> s.end_index + cursor,
             proof |-> IF IsSome(pick) /\ ~bad
                       THEN Append(s.proof, nodes[Unwrap(pick) + 1])
                       ELSE s.proof,
             panic |-> bad],
            rounds - 1)

\* proof(): the tree it leaves and the value it returns
MtProof(t, leaf) ==
    IF MtIsEmpty(t) THEN [tree |-> t, kind |-> "None", val |-> <<>>]
    ELSE
    LET c == Refresh(t)
        pos == Position(c.nodes, Keccak256(leaf))
        n_leaves == (Len(c.nodes) + 1) \div 2
        tree_depth == IF IsPowerOfTwo(n_leaves) THEN ILog2(n_leaves) ELSE ILog2(n_leaves) + 1
        out == ProofLoop(c.nodes,
                   [start_index |-> 0, end_index |-> n_leaves,
                    odd_levels_count |-> 0, odd_element_index |-> 0,
                    item_cursor |-> Unwrap(pos), item_index |-> Unwrap(pos),
                    proof |-> <<>>, panic |-> FALSE],
                   tree_depth)
    IN  IF pos = None THEN [tree |-> c, kind |-> "None", val |-> <<>>]
        ELSE IF out.panic THEN [tree |-> c, kind |-> "Panic", val |-> <<>>]
        ELSE [tree |-> c, kind |-> "Some", val |-> out.proof]

\* verify(): the tree it leaves and the value it returns
MtVerify(t, leaf, proof) ==
    IF MtIsEmpty(t) THEN [tree |-> t, val |-> FALSE]
    ELSE LET r == MtRoot(t)
         IN  [tree |-> r.tree,
              val |-> IF IsSome(r.val) THEN VerifyFromRoot(Unwrap(r.val), leaf, proof) ELSE FALSE]

\* --------------------------------------------------------------- entities
\* Device::from(pk)
DeviceFrom(pk) == [id |-> Bs58(Sha256(pk)), pk |-> pk, web3 |-> None]

\* FlightDataId::new(timestamp, device_id)
FlightDataIdNew(timestamp, device_id) ==
    Sha256(BE(FLIGHT_DATA_ID_PREFIX, 1) \o BE(timestamp, 8) \o device_id)

\* a conversion whose id covers the payload as well
FlightDataFromRequestByContent(device_id, timestamp, localization, payload, signature) ==
    [id |-> Sha256(BE(FLIGHT_DATA_ID_PREFIX, 1) \o BE(timestamp, 8) \o device_id
                   \o payload),
     signature |-> signature,
     timestamp |-> timestamp,
     localization |-> localization,
     payload |-> payload]

\* FlightData::try_from(POSTFlightDataRequest)
FlightDataFromRequest(device_id, timestamp, localization, payload, signature) ==
    [id |-> FlightDataIdNew(timestamp, device_id),
     signature |-> signature,
     timestamp |-> timestamp,
     localization |-> localization,
     payload |-> payload]

\* FlightData::to_bytes
ToBytes(fd) ==
    fd.id \o BE(fd.timestamp, 8) \o BE(fd.localization.latitude, 8)
          \o BE(fd.localization.longitude, 8) \o fd.payload

\* Dataset::dataset_id(device_id, device_dataset_counter)
DatasetIdOf(device_id, device_dataset_counter) ==
    Bs58(Sha256(device_id \o BE(device_dataset_counter, 4)))

\* ------------------------------------------------------ in-memory storage
MapPut(m, k, v) == [x \in (DOMAIN m) \cup {k} |-> IF x = k THEN v ELSE m[x]]

Ok(v) == [ok |-> TRUE, val |-> v]
Err(e) == [ok |-> FALSE, err |-> e]

EmptyStorage ==
    [devices |-> <<>>, fligth_data |-> <<>>, datasets |-> <<>>,
     datasets_flight_datas |-> <<>>, flight_data_dataset |-> <<>>,
     devices_datasets |-> <<>>, dataset_limits |-> <<>>]

\* a new_dataset_id whose two draws are the same at every call
NewDatasetIdRepeated(draw) == Bs58(Sha256(BE(1, 8) \o BE(2, 8)))

\* InMemoryStorage::new_dataset_id: the sha256 of two random u64, text-encoded.
\* The two draws are the numbers 2*draw-1 and 2*draw: random ids never repeat.
NewDatasetId(draw) == Bs58(Sha256(BE(2 * draw - 1, 8) \o BE(2 * draw, 8)))

\* an increment_dataset_count that answers the new count without storing it
IncrementDatasetCountUnstored(S, ds_id) ==
    IF ds_id \notin DOMAIN S.datasets
    THEN [store |-> S, res |-> Err("NotFound(Dataset)")]
    ELSE [store |-> S, res |-> Ok(S.datasets[ds_id].count + 1)]

\* an increment_dataset_count that does not test the limit
IncrementDatasetCountUnchecked(S, ds_id) ==
    IF ds_id \notin DOMAIN S.datasets
    THEN [store |-> S, res |-> Err("NotFound(Dataset)")]
    ELSE [store |-> [S EXCEPT !.datasets[ds_id].count = @ + 1],
          res |-> Ok(S.datasets[ds_id].count + 1)]

\* increment_dataset_count: the storage it leaves and what it returns
IncrementDatasetCount(S, ds_id) ==
    IF ds_id \notin DOMAIN S.datasets
    THEN [store |-> S, res |-> Err("NotFound(Dataset)")]
    ELSE IF S.datasets[ds_id].count >= S.datasets[ds_id].limit
    THEN [store |-> S, res |-> Err("Generic")]
    ELSE [store |-> [S EXCEPT !.datasets[ds_id].count = @ + 1],
          res |-> Ok(S.datasets[ds_id].count + 1)]

\* a new_device that inserts before it looks: the duplicate takes the place
\* of the stored device
MemNewDeviceOverwriting(S, device, dataset_limit) ==
    IF device.id \in DOMAIN S.devices
    THEN [store |-> [S EXCEPT !.devices[device.id] = device],
          res |-> Err("AlreadyExists")]
    ELSE [store |-> [S EXCEPT
                        !.devices = MapPut(@, device.id, device),
                        !.devices_datasets = MapPut(@, device.id, <<>>),
                        !.dataset_limits = MapPut(@, device.id, dataset_limit)],
          res |-> Ok("unit")]

\* DeviceStorage::new_device
MemNewDevice(S, device, dataset_limit) ==
    IF device.id \in DOMAIN S.devices
    THEN [store |-> S, res |-> Err("AlreadyExists")]
    ELSE [store |-> [S EXCEPT
                        !.devices = MapPut(@, device.id, device),
                        !.devices_datasets = MapPut(@, device.id, <<>>),
                        !.dataset_limits = MapPut(@, device.id, dataset_limit)],
          res |-> Ok("unit")]

\* DeviceStorage::get_device
MemGetDevice(S, id) ==
    IF id \in DOMAIN S.devices THEN Ok(S.devices[id]) ELSE Err("NotFound(Device)")

\* FlightDataStorage::get_dataset
MemGetDataset(S, id) ==
    IF id \in DOMAIN S.datasets THEN Ok(S.datasets[id]) ELSE Err("NotFound(Dataset)")

\* FlightDataStorage::new_dataset, with the id new_dataset_id() drew
MemNewDataset(S, limit, device_id, new_id) ==
    LET dataset == [id |-> new_id, limit |-> limit, count |-> 0, web3 |-> None]
    IN  IF device_id \notin DOMAIN S.devices_datasets
        THEN [store |-> S, res |-> Err("NotFound(Device)")]
        ELSE [store |-> [S EXCEPT
                            !.devices_datasets[device_id] = Append(@, new_id),
                            !.datasets = MapPut(@, new_id, dataset),
                            !.datasets_flight_datas = MapPut(@, new_id, <<>>)],
              res |-> Ok(dataset)]

\* FlightDataStorage::get_latest_dataset
MemGetLatestDataset(S, device_id) ==
    IF device_id \notin DOMAIN S.devices_datasets THEN Err("NotFound(Device)")
    ELSE LET dataset_list == S.devices_datasets[device_id]
         IN  IF dataset_list = <<>> THEN Ok(None)
             ELSE Ok(Some(S.datasets[dataset_list[Len(dataset_list)]]))

\* a tail of new_flight_data that returns the dataset as it was read, without
\* the new count
RelateFlightDataStale(S, fd, ds_id) ==
    LET inc == IncrementDatasetCount(S, ds_id)
    IN  IF ~inc.res.ok THEN [store |-> S, res |-> inc.res]
        ELSE [store |-> [inc.store EXCEPT
                            !.datasets_flight_datas[ds_id] = Append(@, fd.id),
                            !.flight_data_dataset = MapPut(@, fd.id, ds_id)],
              res |-> Ok(S.datasets[ds_id])]

\* the tail of new_flight_data once the dataset is chosen: count the record in,
\* list it in the dataset and point it to the dataset
RelateFlightData(S, fd, ds_id) ==
    LET inc == IncrementDatasetCount(S, ds_id)
    IN  IF ~inc.res.ok THEN [store |-> S, res |-> inc.res]
        ELSE [store |-> [inc.store EXCEPT
                            !.datasets_flight_datas[ds_id] = Append(@, fd.id),
                            !.flight_data_dataset = MapPut(@, fd.id, ds_id)],
              res |-> Ok(inc.store.datasets[ds_id])]

\* a new_flight_data that goes on with the device's latest dataset whether it
\* is full or not
MemNewFlightDataNoRollover(S, fd, device_id, new_id) ==
    IF fd.id \in DOMAIN S.fligth_data
    THEN [store |-> S, res |-> Err("AlreadyExists"), drew |-> FALSE]
    ELSE
    LET S1 == [S EXCEPT !.fligth_data = MapPut(@, fd.id, fd)]
    IN  IF device_id \notin DOMAIN S1.devices_datasets
        THEN [store |-> S1, res |-> Err("NotFound(Device)"), drew |-> FALSE]
        ELSE
        LET open == S1.devices_datasets[device_id] # <<>>
            S2 == IF open THEN S1
                  ELSE MemNewDataset(S1, S1.dataset_limits[device_id],
                                     device_id, new_id).store
            ds_id == IF open THEN Unwrap(MemGetLatestDataset(S1, device_id).val).id
                     ELSE new_id
            inc == IncrementDatasetCountUnchecked(S2, ds_id)
        IN  [store |-> [inc.store EXCEPT
                           !.datasets_flight_datas[ds_id] = Append(@, fd.id),
                           !.flight_data_dataset = MapPut(@, fd.id, ds_id)],
             res |-> Ok(inc.store.datasets[ds_id]), drew |-> ~open]

\* a new_flight_data that does not put the stored record back on a duplicate
MemNewFlightDataOverwriting(S, fd, device_id, new_id) ==
    IF fd.id \in DOMAIN S.fligth_data
    THEN [store |-> [S EXCEPT !.fligth_data[fd.id] = fd],
          res |-> Err("AlreadyExists"), drew |-> FALSE]
    ELSE
    LET S1 == [S EXCEPT !.fligth_data = MapPut(@, fd.id, fd)]
    IN  IF device_id \notin DOMAIN S1.devices_datasets
        THEN [store |-> S1, res |-> Err("NotFound(Device)"), drew |-> FALSE]
        ELSE
        LET latest == Unwrap(MemGetLatestDataset(S1, device_id).val)
            open == S1.devices_datasets[device_id] # <<>>
                        /\ latest.count < latest.limit
            S2 == IF open THEN S1
                  ELSE MemNewDataset(S1, S1.dataset_limits[device_id],
                                     device_id, new_id).store
            ds_id == IF open THEN latest.id ELSE new_id
            rel == RelateFlightData(S2, fd, ds_id)
        IN  [store |-> rel.store, res |-> rel.res, drew |-> ~open]

\* FlightDataStorage::new_flight_data, run under the fligth_data write lock;
\* new_id is the id new_dataset_id() draws if a dataset has to be opened
MemNewFlightData(S, fd, device_id, new_id) ==
    IF fd.id \in DOMAIN S.fligth_data
    THEN [store |-> S, res |-> Err("AlreadyExists"), drew |-> FALSE]
    ELSE
    LET S1 == [S EXCEPT !.fligth_data = MapPut(@, fd.id, fd)]
    IN  IF device_id \notin DOMAIN S1.devices_datasets
        THEN [store |-> S1, res |-> Err("NotFound(Device)"), drew |-> FALSE]
        ELSE
        LET latest == Unwrap(MemGetLatestDataset(S1, device_id).val)
            open == S1.devices_datasets[device_id] # <<>>
                        /\ latest.count < latest.limit
            S2 == IF open THEN S1
                  ELSE MemNewDataset(S1, S1.dataset_limits[device_id],
                                     device_id, new_id).store
            ds_id == IF open THEN latest.id ELSE new_id
            rel == RelateFlightData(S2, fd, ds_id)
        IN  [store |-> rel.store, res |-> rel.res, drew |-> ~open]

\* FlightDataStorage::get_flight_data
MemGetFlightData(S, id) ==
    IF id \in DOMAIN S.fligth_data THEN Ok(S.fligth_data[id])
    ELSE Err("NotFound(FlightData)")

\* FlightDataStorage::get_dataset_flight_datas
MemGetDatasetFlightDatas(S, ds_id) ==
    IF ds_id \notin DOMAIN S.datasets_flight_datas THEN Err("NotFound(Dataset)")
    ELSE Ok([i \in 1..Len(S.datasets_flight_datas[ds_id]) |->
                S.fligth_data[S.datasets_flight_datas[ds_id][i]]])

\* FlightDataStorage::get_flight_data_dataset
MemGetFlightDataDataset(S, fd_id) ==
    IF fd_id \notin DOMAIN S.flight_data_dataset THEN Err("NotFound(FlightData)")
    ELSE MemGetDataset(S, S.flight_data_dataset[fd_id])

\* FlightDataStorage::update_dataset_web3
MemUpdateDatasetWeb3(S, ds) ==
    IF ds.id \in DOMAIN S.datasets
    THEN [S EXCEPT !.datasets[ds.id].web3 = ds.web3]
    ELSE S

\* DeviceStorage::update_device
MemUpdateDevice(S, device) ==
    IF device.id \in DOMAIN S.devices
    THEN [store |-> [S EXCEPT !.devices[device.id] = device], res |-> Ok("unit")]
    ELSE [store |-> [S EXCEPT !.devices = MapPut(@, device.id, device)],
          res |-> Err("NotFound(Device)")]

\* storage.set_flight_data(fd) as the coordinator calls it: the record is
\* inserted unless one with its id is there; the answer is whether one was
SetFlightData(S, fd) ==
    IF fd.id \in DOMAIN S.fligth_data
    THEN [store |-> S, res |-> Ok(TRUE)]
    ELSE [store |-> [S EXCEPT !.fligth_data = MapPut(@, fd.id, fd)],
          res |-> Ok(FALSE)]

\* ------------------------------------------------------------ timestamper
\* the Merkle tree register_dataset and flight_data_web3_info build
TreeOf(flight_datas) ==
    LET Built[i \in 0..Len(flight_datas)] ==
            IF i = 0 THEN EmptyTree
            ELSE MtAppend(Built[i - 1], ToBytes(flight_datas[i]))
    IN  Built[Len(flight_datas)]

\* Web3Info::new
Web3InfoNew(blockchain, tx) ==
    [blockchain |-> blockchain, tx |-> tx, merkle_receipt |-> None]

\* Web3Info::new_with_merkle
Web3InfoNewWithMerkle(blockchain, tx, merkle) ==
    [blockchain |-> blockchain, tx |-> tx, merkle_receipt |-> Some(merkle)]

\* EthereumTimestamper::register_dataset when the transaction is confirmed:
\* the root it submits and the Web3Info it returns
RegisterDataset(dataset, device_id, flight_datas, tx_hash) ==
    LET r == MtRoot(TreeOf(flight_datas))
    IN  [merkle_root |-> Unwrap(r.val),
         web3 |-> Web3InfoNewWithMerkle("devnet",
                      [hash |-> tx_hash, status |-> "Confirmed"],
                      [variant |-> "Tree", val |-> r.tree])]

\* EthereumTimestamper::register_device when the transaction is confirmed
RegisterDevice(device, tx_hash) ==
    Web3InfoNew("devnet", [hash |-> tx_hash, status |-> "Confirmed"])

\* a flight_data_web3_info that hands back the dataset's own receipt
FlightDataWeb3InfoCloned(fd, flight_datas, dataset_receipt) ==
    LET p == MtProof(TreeOf(flight_datas), ToBytes(fd))
    IN  IF p.kind = "Some"
        THEN [kind |-> "Ok", val |-> dataset_receipt]
        ELSE [kind |-> "Panic"]

\* Timestamper::flight_data_web3_info: proof(..).unwrap() panics without a proof
FlightDataWeb3Info(fd, flight_datas, dataset_receipt) ==
    LET p == MtProof(TreeOf(flight_datas), ToBytes(fd))
    IN  IF p.kind = "Some"
        THEN [kind |-> "Ok",
              val |-> [blockchain |-> dataset_receipt.blockchain,
                       tx |-> dataset_receipt.tx,
                       merkle_receipt |-> Some([variant |-> "Proof", val |-> p.val])]]
        ELSE [kind |-> "Panic"]

\* Bitacora::get_flight_data_receipt
GetFlightDataReceipt(S, fd) ==
    LET found == MemGetFlightDataDataset(S, fd.id)
    IN  IF ~found.ok THEN [kind |-> "Err", err |-> "StorageError"]
        ELSE IF found.val.web3 = None THEN [kind |-> "Err", err |-> "Web3Error"]
        ELSE FlightDataWeb3Info(fd, MemGetDatasetFlightDatas(S, found.val.id).val,
                                Unwrap(found.val.web3))

\* the handler of POST /flight_data/{id}/verify
VerifyHandler(S, dataset_id, flight_data, proof) ==
    LET found == MemGetDataset(S, dataset_id)
    IN  IF ~found.ok THEN [status |-> "not_found(Dataset)"]
        ELSE IF found.val.web3 = None THEN [status |-> "not_found(Dataset Web3Info)"]
        ELSE IF Unwrap(found.val.web3).merkle_receipt = None
        THEN [status |-> "not_found(Dataset Merkle Root)"]
        ELSE IF Unwrap(Unwrap(found.val.web3).merkle_receipt).variant # "Root"
        THEN [status |-> "web3_error"]
        ELSE [status |-> "ok",
              result |-> VerifyFromRoot(
                             Unwrap(Unwrap(found.val.web3).merkle_receipt).val,
                             ToBytes(flight_data), proof)]

\* what a submission to the chain can come to: confirmed, refused at send(),
\* or a pending transaction that yields no receipt (unimplemented!())
Outcomes == {"Confirmed", "SubmissionFailed", "Panic"}

\* ------------------------------------------------------------------ state
VARIABLES
    mt,          \* a MerkleTreeAppendOnly: its nodes buffer and its pending leaves
    appended,    \* the elements appended to mt, in order
    mres,        \* what the last operation on mt returned
    storage,     \* the InMemoryStorage: one field per map of the struct
    rng,         \* how many dataset ids new_dataset_id() has drawn
    ret,         \* what the last storage operation returned
    succ,        \* per device id, how many new_flight_data calls succeeded
    task,        \* per coordinator task, where it is in its call and its locals
    result,      \* what the last call returned, until the next call starts
    chain,       \* the transactions the contract has confirmed, in order
    handed,      \* per dataset id, how many times register_dataset was called
    sealObs,     \* per dataset id, how many calls saw it reach count = limit
    issued,      \* how many new timestamps the devices have sent
    order,       \* whether the devices' timestamps go up or down
    notary       \* the calls made to the timestamper alone: the requests in
                 \* the order they were made, the calls whose transaction was
                 \* submitted in the order of submission, and how calls ended

merkleVars == <<mt, appended, mres>>
storeVars == <<storage, rng, ret, succ>>
coVars == <<task, result, chain, handed, sealObs, issued, order, notary>>
vars == <<mt, appended, mres, storage, rng, ret, succ,
          task, result, chain, handed, sealObs, issued, order, notary>>

\* device ids of the public keys the runs use
PublicKeys == {<<1>>, <<2>>}
DeviceIds == {DeviceFrom(pk).id : pk \in PublicKeys}

InitMerkleVars ==
    /\ mt = EmptyTree
    /\ appended = <<>>
    /\ mres = [op |-> "none"]

InitStoreVars ==
    /\ storage = EmptyStorage
    /\ rng = 0
    /\ ret = [op |-> "none"]
    /\ succ = [d \in DeviceIds |-> 0]

Tasks == {"t1", "t2"}
Idle == [pc |-> "idle"]

InitCoVars ==
    /\ task = [t \in Tasks |-> Idle]
    /\ result = [kind |-> "none"]
    /\ chain = <<>>
    /\ handed = <<>>
    /\ sealObs = <<>>
    /\ issued = 0
    /\ order \in {"up", "down"}
    /\ notary = [calls |-> <<>>, sent |-> <<>>, ended |-> <<>>]

\* ----------------------------------------------------- Merkle engine runs
Elements == {<<e>> : e \in 1..MaxLeaves}

Unappended == {e \in Elements : \A i \in 1..Len(appended) : appended[i] # e}

InitMerkle == InitMerkleVars /\ InitStoreVars /\ InitCoVars /\ order = "up"

\* append(element), for a new element: the least or the greatest one left
MAppend(e) ==
    /\ e \in Unappended
    /\ \/ \A o \in Unappended : ~SeqLess(o, e)
       \/ \A o \in Unappended : ~SeqLess(e, o)
    /\ mt' = MtAppend(mt, e)
    /\ appended' = Append(appended, e)
    /\ mres' = [op |-> "append"]
    /\ UNCHANGED <<storeVars, coVars>>

MRoot ==
    /\ mt' = MtRoot(mt).tree
    /\ mres' = [op |-> "root", val |-> MtRoot(mt).val]
    /\ UNCHANGED <<appended, storeVars, coVars>>

\* the element made of the hashes of the first two leaves, in the order
\* pairwise_hash puts them: its hash is the node above the two leaves
Forged ==
    IF Len(appended) < 2 THEN {}
    ELSE LET v1 == Keccak256(appended[1])
             v2 == Keccak256(appended[2])
         IN  {IF SeqLess(v1, v2) THEN v1 \o v2 ELSE v2 \o v1}

MProof(e) ==
    /\ mt' = MtProof(mt, e).tree
    /\ mres' = [op |-> "proof", leaf |-> e, kind |-> MtProof(mt, e).kind,
                val |-> MtProof(mt, e).val]
    /\ UNCHANGED <<appended, storeVars, coVars>>

\* verify(leaf, proof) of the proof just obtained for that leaf
MVerify ==
    /\ mres.op = "proof" /\ mres.kind = "Some"
    /\ mt' = MtVerify(mt, mres.leaf, mres.val).tree
    /\ mres' = [op |-> "verify", leaf |-> mres.leaf, proof |-> mres.val,
                val |-> MtVerify(mt, mres.leaf, mres.val).val]
    /\ UNCHANGED <<appended, storeVars, coVars>>

\* the proofs a caller brings: the empty one and a one-hash one
Proofs == {<<>>, <<Keccak256(<<1>>)>>}

\* verify(leaf, proof) of any element with a proof brought from outside
MVerifyWith(e, p) ==
    /\ mt' = MtVerify(mt, e, p).tree
    /\ mres' = [op |-> "verify", leaf |-> e, proof |-> p,
                val |-> MtVerify(mt, e, p).val]
    /\ UNCHANGED <<appended, storeVars, coVars>>

NextMerkle ==
    \/ \E e \in Elements : MAppend(e)
    \/ MRoot
    \/ \E e \in Elements \cup Forged : MProof(e)
    \/ MVerify
    \/ \E e \in Elements \cup Forged, p \in Proofs : MVerifyWith(e, p)

SpecMerkle == InitMerkle /\ [][NextMerkle]_vars

\* ------------------------------------------------ storage backend runs
Timestamps == 1..MaxRecords
Limits == 1..MaxLimit

\* the request a device sends at a timestamp: where it is follows the time
RequestAt(device_id, timestamp) ==
    FlightDataFromRequest(device_id, timestamp,
                          [latitude |-> timestamp, longitude |-> 0], <<>>, <<>>)

InitStorage == InitMerkleVars /\ InitStoreVars /\ InitCoVars /\ order = "up"

\* storage.new_device(device, dataset_limit)
SNewDevice(pk, dataset_limit) ==
    LET r == MemNewDevice(storage, DeviceFrom(pk), dataset_limit)
    IN  /\ storage' = r.store
        /\ ret' = [op |-> "new_device", device |-> DeviceFrom(pk).id, res |-> r.res]
        /\ UNCHANGED <<rng, succ, merkleVars, coVars>>

\* the timestamps a device has not sent yet
Unsent(device_id) ==
    {t \in Timestamps : RequestAt(device_id, t).id \notin DOMAIN storage.fligth_data}

\* a device sends a timestamp again, or else the least or the greatest of those
\* it has not sent yet, while the store has room
Sendable(device_id, timestamp) ==
    \/ timestamp \notin Unsent(device_id)
    \/ /\ Cardinality(DOMAIN storage.fligth_data) < MaxRecords
       /\ \/ \A t \in Unsent(device_id) : t >= timestamp
          \/ \A t \in Unsent(device_id) : t <= timestamp

\* the request that sends a timestamp again from another place, with another
\* payload and another signature
ResendAt(device_id, timestamp) ==
    FlightDataFromRequest(device_id, timestamp,
                          [latitude |-> 0, longitude |-> timestamp], <<7>>, <<9>>)

\* storage.new_flight_data(fd, device_id)
SNewFlightData(device_id, timestamp) ==
    LET fd == IF timestamp \in Unsent(device_id)
              THEN RequestAt(device_id, timestamp)
              ELSE ResendAt(device_id, timestamp)
        r == MemNewFlightData(storage, fd, device_id, NewDatasetId(rng + 1))
    IN  /\ Sendable(device_id, timestamp)
        /\ storage' = r.store
        /\ rng' = IF r.drew THEN rng + 1 ELSE rng
        /\ ret' = [op |-> "new_flight_data", device |-> device_id,
                   fd |-> fd, res |-> r.res]
        /\ succ' = IF r.res.ok THEN [succ EXCEPT ![device_id] = @ + 1] ELSE succ
        /\ UNCHANGED <<merkleVars, coVars>>

\* storage.get_latest_dataset(device_id)
SGetLatestDataset(device_id) ==
    /\ ret' = [op |-> "get_latest_dataset", device |-> device_id,
               res |-> MemGetLatestDataset(storage, device_id)]
    /\ UNCHANGED <<storage, rng, succ, merkleVars, coVars>>

NextStorage ==
    \/ \E pk \in PublicKeys, l \in Limits : SNewDevice(pk, l)
    \/ \E d \in DeviceIds, t \in Timestamps : SNewFlightData(d, t)
    \/ \E d \in DeviceIds : SGetLatestDataset(d)

SpecStorage == InitStorage /\ [][NextStorage]_vars

\* --------------------------------------------- storage runs with receipts
\* the receipts update_device and update_dataset_web3 are called with
Receipts == {None, Some(Web3InfoNew("devnet", [hash |-> 1, status |-> "Confirmed"]))}

\* storage.update_device(device), for a registered or an unknown device
SUpdateDevice(pk, web3) ==
    LET device == [DeviceFrom(pk) EXCEPT !.web3 = web3]
        r == MemUpdateDevice(storage, device)
    IN  /\ storage' = r.store
        /\ ret' = [op |-> "update_device", device |-> device.id, web3 |-> web3,
                   res |-> r.res]
        /\ UNCHANGED <<rng, succ, merkleVars, coVars>>

\* storage.update_dataset_web3(ds), for a stored dataset
SUpdateDatasetWeb3(ds_id, web3) ==
    LET ds == [storage.datasets[ds_id] EXCEPT !.web3 = web3]
    IN  /\ ds_id \in DOMAIN storage.datasets
        /\ storage' = MemUpdateDatasetWeb3(storage, ds)
        /\ ret' = [op |-> "update_dataset_web3", dataset |-> ds_id, web3 |-> web3,
                   res |-> Ok("unit")]
        /\ UNCHANGED <<rng, succ, merkleVars, coVars>>

NextReceipts ==
    \/ \E pk \in PublicKeys : SNewDevice(pk, 1)
    \/ \E d \in DeviceIds, t \in Timestamps : SNewFlightData(d, t)
    \/ \E pk \in PublicKeys, w \in Receipts : SUpdateDevice(pk, w)
    \/ \E ds \in DOMAIN storage.datasets, w \in Receipts : SUpdateDatasetWeb3(ds, w)

SpecReceipts == InitStorage /\ [][NextReceipts]_vars

\* two devices of one limit send records, and any stored dataset gets a
\* confirmed receipt written
NextIsolation ==
    \/ \E pk \in PublicKeys : SNewDevice(pk, MaxLimit)
    \/ \E d \in DeviceIds, t \in Timestamps : SNewFlightData(d, t)
    \/ \E ds \in DOMAIN storage.datasets, w \in Receipts \ {None} :
          SUpdateDatasetWeb3(ds, w)

SpecIsolation == InitStorage /\ [][NextIsolation]_vars

\* the public key the runs with concurrent calls register; the other device
\* id is unknown
Registrable == {<<1>>}

\* --------------------------------------------- storage runs, lock by lock
\* Each map of InMemoryStorage sits behind its own RwLock.  A thread's record
\* holds the guards it has alive; a step of a call is the taking of one lock
\* and the code up to the next one.

\* the guards a thread holds
Held(u) == IF "held" \in DOMAIN task[u] THEN task[u].held ELSE {}

\* the locks a panic under a write guard has poisoned
Poisoned(l) == \E u \in Tasks : task[u].pc = "panicked" /\ l \in task[u].poisoned

\* RwLock::read and RwLock::write return when the lock can be had
CanRead(l) == \A u \in Tasks : <<l, "w">> \notin Held(u)
CanWrite(l) == \A u \in Tasks : <<l, "w">> \notin Held(u) /\ <<l, "r">> \notin Held(u)
CanTake(want) == IF want[2] = "r" THEN CanRead(want[1]) ELSE CanWrite(want[1])

\* the lock a call takes next, by the point it has reached
Want(pc) ==
    CASE pc = "dev_devices_datasets" -> <<"devices_datasets", "w">>
      [] pc = "dev_dataset_limits" -> <<"dataset_limits", "w">>
      [] pc = "nfd_devices_datasets" -> <<"devices_datasets", "r">>
      [] pc = "nfd_get_dataset" -> <<"datasets", "r">>
      [] pc = "nfd_dataset_limits" -> <<"dataset_limits", "r">>
      [] pc = "nd_datasets" -> <<"datasets", "w">>
      [] pc = "nd_devices_datasets" -> <<"devices_datasets", "w">>
      [] pc = "nd_datasets_flight_datas" -> <<"datasets_flight_datas", "w">>
      [] pc = "nfd_increment" -> <<"datasets", "w">>
      [] pc = "nfd_push" -> <<"datasets_flight_datas", "w">>
      [] pc = "nfd_map" -> <<"flight_data_dataset", "w">>
      [] pc = "gdf_fligth_data" -> <<"fligth_data", "r">>
      [] pc = "gld_datasets" -> <<"datasets", "r">>
      [] pc = "gfd_datasets" -> <<"datasets", "r">>

\* the thread is inside a call, about to take a lock
Running(t) == task[t].pc \notin {"idle", "panicked"}

\* the thread takes the lock its call needs next
Take(t) == Running(t) /\ CanTake(Want(task[t].pc)) /\ ~Poisoned(Want(task[t].pc)[1])

\* the variables the storage calls leave alone
lockFrame == <<succ, merkleVars, result, chain, handed, sealObs, issued, order, notary>>

\* a call returns: its guards are dropped
Finish(t, op, res) ==
    /\ task' = [task EXCEPT ![t] = Idle]
    /\ ret' = [op |-> op, res |-> res]

\* a call goes on to take its next lock
Step(t, locals) ==
    /\ task' = [task EXCEPT ![t] = locals]
    /\ ret' = ret

\* an unwrap() fails: the thread unwinds, its guards are dropped and the locks
\* it held for writing are poisoned
Unwind(t, op) ==
    /\ task' = [task EXCEPT ![t] =
                   [pc |-> "panicked",
                    poisoned |-> {h[1] : h \in {x \in Held(t) : x[2] = "w"}}]]
    /\ ret' = [op |-> op, res |-> Err("panic")]

\* lock().unwrap() on a poisoned lock, inside a call or as its first lock
LPoisoned(t) ==
    /\ \/ /\ Running(t)
          /\ CanTake(Want(task[t].pc))
          /\ Poisoned(Want(task[t].pc)[1])
       \/ /\ task[t].pc = "idle"
          /\ \E l \in {"devices", "fligth_data", "datasets_flight_datas",
                       "devices_datasets", "flight_data_dataset"} : Poisoned(l)
    /\ Unwind(t, IF Running(t) THEN task[t].op ELSE "call")
    /\ UNCHANGED <<storage, rng, lockFrame>>

\* new_device: devices.write(), the test and the insert
LNewDevice(t, pk, dataset_limit) ==
    LET device == DeviceFrom(pk)
    IN  /\ task[t].pc = "idle"
        /\ CanWrite("devices") /\ ~Poisoned("devices")
        /\ IF device.id \in DOMAIN storage.devices
           THEN /\ storage' = storage
                /\ Finish(t, "new_device", Err("AlreadyExists"))
           ELSE /\ storage' = [storage EXCEPT !.devices = MapPut(@, device.id, device)]
                /\ Step(t, [pc |-> "dev_devices_datasets", op |-> "new_device",
                            held |-> {<<"devices", "w">>},
                            device_id |-> device.id, limit |-> dataset_limit])
        /\ UNCHANGED <<rng, lockFrame>>

\* new_device: devices_datasets.write().insert(id, vec![])
LDevDevicesDatasets(t) ==
    /\ task[t].pc = "dev_devices_datasets" /\ Take(t)
    /\ storage' = [storage EXCEPT
                      !.devices_datasets = MapPut(@, task[t].device_id, <<>>)]
    /\ Step(t, [task[t] EXCEPT !.pc = "dev_dataset_limits"])
    /\ UNCHANGED <<rng, lockFrame>>

\* new_device: dataset_limits.write().insert(id, limit), and the return
LDevDatasetLimits(t) ==
    /\ task[t].pc = "dev_dataset_limits" /\ Take(t)
    /\ storage' = [storage EXCEPT
                      !.dataset_limits = MapPut(@, task[t].device_id, task[t].limit)]
    /\ Finish(t, "new_device", Ok("unit"))
    /\ UNCHANGED <<rng, lockFrame>>

\* new_flight_data: fligth_data.write(), kept to the end, and the insert; the
\* device sends its next timestamp, or the last one it sent again
LNewFlightData(t, device_id, timestamp) ==
    LET fd == IF timestamp \in Unsent(device_id)
              THEN RequestAt(device_id, timestamp)
              ELSE ResendAt(device_id, timestamp)
    IN  /\ task[t].pc = "idle"
        /\ Sendable(device_id, timestamp)
        /\ \A ts \in Timestamps \ Unsent(device_id) : ts <= timestamp
        /\ CanWrite("fligth_data") /\ ~Poisoned("fligth_data")
        /\ IF fd.id \in DOMAIN storage.fligth_data
           THEN /\ storage' = storage
                /\ Finish(t, "new_flight_data", Err("AlreadyExists"))
           ELSE /\ storage' = [storage EXCEPT !.fligth_data = MapPut(@, fd.id, fd)]
                /\ Step(t, [pc |-> "nfd_devices_datasets", op |-> "new_flight_data",
                            held |-> {<<"fligth_data", "w">>},
                            fd |-> fd, device_id |-> device_id])
        /\ UNCHANGED <<rng, lockFrame>>

\* new_flight_data: devices_datasets.read() and the look at the device's list
LNfdDevicesDatasets(t) ==
    /\ task[t].pc = "nfd_devices_datasets" /\ Take(t)
    /\ IF task[t].device_id \notin DOMAIN storage.devices_datasets
       THEN Finish(t, "new_flight_data", Err("NotFound(Device)"))
       ELSE IF storage.devices_datasets[task[t].device_id] = <<>>
       THEN Step(t, [task[t] EXCEPT !.pc = "nfd_dataset_limits"])
       ELSE Step(t, [pc |-> "nfd_get_dataset", op |-> "new_flight_data",
                     held |-> task[t].held \cup {<<"devices_datasets", "r">>},
                     fd |-> task[t].fd, device_id |-> task[t].device_id,
                     ds_id |-> LET l == storage.devices_datasets[task[t].device_id]
                               IN  l[Len(l)]])
    /\ UNCHANGED <<storage, rng, lockFrame>>

\* new_flight_data: get_dataset(ds_id) under the devices_datasets guard, then
\* the end of the scope
LNfdGetDataset(t) ==
    /\ task[t].pc = "nfd_get_dataset" /\ Take(t)
    /\ LET candidate == storage.datasets[task[t].ds_id]
           base == [op |-> "new_flight_data", held |-> {<<"fligth_data", "w">>},
                    fd |-> task[t].fd, device_id |-> task[t].device_id]
       IN  IF candidate.count < candidate.limit
           THEN Step(t, [pc |-> "nfd_increment", dataset |-> candidate] @@ base)
           ELSE Step(t, [pc |-> "nfd_dataset_limits"] @@ base)
    /\ UNCHANGED <<storage, rng, lockFrame>>

\* new_flight_data: dataset_limits.read().get(device_id).unwrap(), and the
\* Dataset new_dataset builds with the id it draws
LNfdDatasetLimits(t) ==
    /\ task[t].pc = "nfd_dataset_limits" /\ Take(t)
    /\ IF task[t].device_id \notin DOMAIN storage.dataset_limits
       THEN Unwind(t, "new_flight_data") /\ rng' = rng
       ELSE /\ Step(t, [pc |-> "nd_datasets", op |-> "new_flight_data",
                        held |-> task[t].held, fd |-> task[t].fd,
                        device_id |-> task[t].device_id, inner |-> TRUE,
                        limit |-> storage.dataset_limits[task[t].device_id],
                        new_id |-> NewDatasetId(rng + 1)])
            /\ rng' = rng + 1
    /\ UNCHANGED <<storage, lockFrame>>

\* new_dataset called on its own: the Dataset is built with the id it draws
LNewDataset(t, limit, device_id) ==
    /\ task[t].pc = "idle"
    /\ rng < MaxLimit
    /\ rng' = rng + 1
    /\ Step(t, [pc |-> "nd_datasets", op |-> "new_dataset", held |-> {},
                device_id |-> device_id, inner |-> FALSE, limit |-> limit,
                new_id |-> NewDatasetId(rng + 1)])
    /\ UNCHANGED <<storage, lockFrame>>

\* new_dataset: datasets.write()
LNdDatasets(t) ==
    /\ task[t].pc = "nd_datasets" /\ Take(t)
    /\ Step(t, [task[t] EXCEPT !.pc = "nd_devices_datasets",
                               !.held = @ \cup {<<"datasets", "w">>}])
    /\ UNCHANGED <<storage, rng, lockFrame>>

\* new_dataset: devices_datasets.write()
LNdDevicesDatasets(t) ==
    /\ task[t].pc = "nd_devices_datasets" /\ Take(t)
    /\ Step(t, [task[t] EXCEPT !.pc = "nd_datasets_flight_datas",
                               !.held = @ \cup {<<"devices_datasets", "w">>}])
    /\ UNCHANGED <<storage, rng, lockFrame>>

\* new_dataset: datasets_flight_datas.write(), the inserts and the return
LNdDatasetsFlightDatas(t) ==
    /\ task[t].pc = "nd_datasets_flight_datas" /\ Take(t)
    /\ LET r == MemNewDataset(storage, task[t].limit, task[t].device_id,
                              task[t].new_id)
       IN  /\ storage' = r.store
           /\ IF ~task[t].inner THEN Finish(t, "new_dataset", r.res)
              ELSE IF ~r.res.ok THEN Unwind(t, "new_flight_data")
              ELSE Step(t, [pc |-> "nfd_increment", op |-> "new_flight_data",
                            held |-> {<<"fligth_data", "w">>}, fd |-> task[t].fd,
                            device_id |-> task[t].device_id,
                            dataset |-> r.res.val])
    /\ UNCHANGED <<rng, lockFrame>>

\* new_flight_data: increment_dataset_count(..).unwrap()
LNfdIncrement(t) ==
    /\ task[t].pc = "nfd_increment" /\ Take(t)
    /\ LET inc == IncrementDatasetCount(storage, task[t].dataset.id)
       IN  IF inc.res.ok
           THEN /\ storage' = inc.store
                /\ Step(t, [task[t] EXCEPT !.pc = "nfd_push",
                                           !.dataset.count = inc.res.val])
           ELSE /\ storage' = storage
                /\ Unwind(t, "new_flight_data")
    /\ UNCHANGED <<rng, lockFrame>>

\* new_flight_data: datasets_flight_datas.write() and the push
LNfdPush(t) ==
    /\ task[t].pc = "nfd_push" /\ Take(t)
    /\ storage' = IF task[t].dataset.id \in DOMAIN storage.datasets_flight_datas
                  THEN [storage EXCEPT !.datasets_flight_datas[task[t].dataset.id]
                                           = Append(@, task[t].fd.id)]
                  ELSE storage
    /\ Step(t, [task[t] EXCEPT !.pc = "nfd_map"])
    /\ UNCHANGED <<rng, lockFrame>>

\* new_flight_data: flight_data_dataset.write(), the insert and the return
LNfdMap(t) ==
    /\ task[t].pc = "nfd_map" /\ Take(t)
    /\ storage' = [storage EXCEPT !.flight_data_dataset
                       = MapPut(@, task[t].fd.id, task[t].dataset.id)]
    /\ Finish(t, "new_flight_data", Ok(task[t].dataset))
    /\ UNCHANGED <<rng, lockFrame>>

\* get_dataset_flight_datas: datasets_flight_datas.read()
LGetDatasetFlightDatas(t, ds_id) ==
    /\ task[t].pc = "idle"
    /\ CanRead("datasets_flight_datas") /\ ~Poisoned("datasets_flight_datas")
    /\ Step(t, [pc |-> "gdf_fligth_data", op |-> "get_dataset_flight_datas",
                held |-> {<<"datasets_flight_datas", "r">>}, ds_id |-> ds_id])
    /\ UNCHANGED <<storage, rng, lockFrame>>

\* get_dataset_flight_datas: fligth_data.read(), the reads and the return
LGdfFligthData(t) ==
    /\ task[t].pc = "gdf_fligth_data" /\ Take(t)
    /\ Finish(t, "get_dataset_flight_datas",
              MemGetDatasetFlightDatas(storage, task[t].ds_id))
    /\ UNCHANGED <<storage, rng, lockFrame>>

\* get_latest_dataset: devices_datasets.read() and the look at the list
LGetLatestDataset(t, device_id) ==
    /\ task[t].pc = "idle"
    /\ CanRead("devices_datasets") /\ ~Poisoned("devices_datasets")
    /\ IF device_id \notin DOMAIN storage.devices_datasets
       THEN Finish(t, "get_latest_dataset", Err("NotFound(Device)"))
       ELSE IF storage.devices_datasets[device_id] = <<>>
       THEN Finish(t, "get_latest_dataset", Ok(None))
       ELSE Step(t, [pc |-> "gld_datasets", op |-> "get_latest_dataset",
                     held |-> {<<"devices_datasets", "r">>},
                     ds_id |-> LET l == storage.devices_datasets[device_id]
                               IN  l[Len(l)]])
    /\ UNCHANGED <<storage, rng, lockFrame>>

\* get_latest_dataset: datasets.read() under the devices_datasets guard
LGldDatasets(t) ==
    /\ task[t].pc = "gld_datasets" /\ Take(t)
    /\ Finish(t, "get_latest_dataset", Ok(Some(storage.datasets[task[t].ds_id])))
    /\ UNCHANGED <<storage, rng, lockFrame>>

\* get_flight_data_dataset: flight_data_dataset.read() and the get
LGetFlightDataDataset(t, fd_id) ==
    /\ task[t].pc = "idle"
    /\ CanRead("flight_data_dataset") /\ ~Poisoned("flight_data_dataset")
    /\ Step(t, [pc |-> "gfd_datasets", op |-> "get_flight_data_dataset",
                held |-> {<<"flight_data_dataset", "r">>},
                ds_id |-> IF fd_id \in DOMAIN storage.flight_data_dataset
                          THEN Some(storage.flight_data_dataset[fd_id])
                          ELSE None])
    /\ UNCHANGED <<storage, rng, lockFrame>>

\* get_flight_data_dataset: datasets.read().get(ds_id.unwrap()).unwrap()
LGfdDatasets(t) ==
    /\ task[t].pc = "gfd_datasets" /\ Take(t)
    /\ IF task[t].ds_id = None
       THEN Unwind(t, "get_flight_data_dataset")
       ELSE Finish(t, "get_flight_data_dataset",
                   Ok(storage.datasets[Unwrap(task[t].ds_id)]))
    /\ UNCHANGED <<storage, rng, lockFrame>>

NextLocks ==
    \/ \E t \in Tasks, pk \in Registrable : LNewDevice(t, pk, MaxLimit)
    \/ \E t \in Tasks : LDevDevicesDatasets(t)
    \/ \E t \in Tasks : LDevDatasetLimits(t)
    \/ \E t \in Tasks, d \in DeviceIds, ts \in Timestamps : LNewFlightData(t, d, ts)
    \/ \E t \in Tasks : LNfdDevicesDatasets(t)
    \/ \E t \in Tasks : LNfdGetDataset(t)
    \/ \E t \in Tasks : LNfdDatasetLimits(t)
    \/ \E t \in Tasks, d \in DOMAIN storage.devices : LNewDataset(t, MaxLimit, d)
    \/ \E t \in Tasks : LNdDatasets(t)
    \/ \E t \in Tasks : LNdDevicesDatasets(t)
    \/ \E t \in Tasks : LNdDatasetsFlightDatas(t)
    \/ \E t \in Tasks : LNfdIncrement(t)
    \/ \E t \in Tasks : LNfdPush(t)
    \/ \E t \in Tasks : LNfdMap(t)
    \/ \E t \in Tasks, ds \in DOMAIN storage.datasets : LGetDatasetFlightDatas(t, ds)
    \/ \E t \in Tasks : LGdfFligthData(t)
    \/ \E t \in Tasks, d \in DeviceIds : LGetLatestDataset(t, d)
    \/ \E t \in Tasks : LGldDatasets(t)
    \/ \E t \in Tasks, f \in DOMAIN storage.fligth_data : LGetFlightDataDataset(t, f)
    \/ \E t \in Tasks : LGfdDatasets(t)
    \/ \E t \in Tasks : LPoisoned(t)

SpecLocks == InitStorage /\ [][NextLocks]_vars

\* ------------------------------------------------------- coordinator runs
Count(b, k) == IF k \in DOMAIN b THEN b[k] ELSE 0
Bump(b, k) == MapPut(b, k, Count(b, k) + 1)

\* the k-th new timestamp the devices send; the last Window of them, and the
\* repeats of those, may be sent while another call is in flight
TimestampOf(k) == IF order = "up" THEN k ELSE MaxIngest + 1 - k

\* no other task is in a call
Alone(t) == \A u \in Tasks \ {t} : task[u].pc = "idle"

\* a call returns: the task is idle again and its result is kept
Return(t, r) ==
    /\ task' = [task EXCEPT ![t] = Idle]
    /\ result' = r

\* the task goes on to its next step with these locals; a call that starts
\* takes the place of the last result
Goto(t, locals) ==
    /\ task' = [task EXCEPT ![t] = locals]
    /\ result' = IF task[t].pc = "idle" THEN [kind |-> "none"] ELSE result

Init == InitMerkleVars /\ InitStoreVars /\ InitCoVars

\* Bitacora::new_device up to storage.new_device
CoNewDevice(t, pk) ==
    LET device == DeviceFrom(pk)
        r == MemNewDevice(storage, device, DATASET_DEFAULT_LIMIT)
    IN  /\ task[t].pc = "idle"
        /\ storage' = r.store
        /\ IF r.res.ok
           THEN Goto(t, [pc |-> "register_device", op |-> "new_device",
                         device |-> device])
           ELSE Return(t, [op |-> "new_device", kind |-> "Err",
                           err |-> "AlreadyExists(Device)", written |-> FALSE])
        /\ UNCHANGED <<chain, handed, sealObs, issued, order, notary, rng, ret, succ, merkleVars>>

\* Bitacora::timestamp_device: timestamper.register_device
CoRegisterDevice(t, outcome) ==
    LET web3_info == RegisterDevice(task[t].device, Len(chain) + 1)
    IN  /\ task[t].pc = "register_device"
        /\ CASE outcome = "Confirmed" ->
                  /\ chain' = Append(chain, [call |-> "registerDevice",
                                             id |-> task[t].device.id])
                  /\ Goto(t, [task[t] EXCEPT !.pc = "set_device",
                                             !.device.web3 = Some(web3_info)])
             [] outcome = "SubmissionFailed" ->
                  /\ chain' = chain
                  /\ Return(t, [op |-> "new_device", kind |-> "Err",
                                err |-> "Web3Error", written |-> TRUE])
             [] outcome = "Panic" ->
                  /\ chain' \in {chain, Append(chain, [call |-> "registerDevice",
                                                       id |-> task[t].device.id])}
                  /\ Return(t, [op |-> "new_device", kind |-> "Panic",
                                written |-> TRUE])
        /\ UNCHANGED <<handed, sealObs, issued, order, notary, storeVars, merkleVars>>

\* Bitacora::timestamp_device: storage.set_device
CoSetDevice(t) ==
    LET r == MemUpdateDevice(storage, task[t].device)
    IN  /\ task[t].pc = "set_device"
        /\ storage' = r.store
        /\ Return(t, IF r.res.ok
                     THEN [op |-> "new_device", kind |-> "Ok", written |-> TRUE]
                     ELSE [op |-> "new_device", kind |-> "Err",
                           err |-> "StorageError", written |-> TRUE])
        /\ UNCHANGED <<chain, handed, sealObs, issued, order, notary, rng, ret, succ, merkleVars>>

\* Bitacora::new_flight_data up to storage.get_device, for a new timestamp or
\* for the last one sent again
CoNewFlightData(t, device_id, fresh) ==
    LET timestamp == TimestampOf(IF fresh THEN issued + 1 ELSE issued)
        fd == RequestAt(device_id, timestamp)
        found == MemGetDevice(storage, device_id).ok
    IN  /\ task[t].pc = "idle"
        /\ IF fresh THEN issued < MaxIngest ELSE issued >= 1
        /\ Alone(t) \/ issued >= MaxIngest - Window
        /\ issued' = IF fresh /\ found THEN issued + 1 ELSE issued
        /\ IF found
           THEN Goto(t, [pc |-> "set_flight_data", op |-> "new_flight_data",
                         fd |-> fd, device_id |-> device_id])
           ELSE Return(t, [op |-> "new_flight_data", kind |-> "Err",
                           err |-> "NotFound", fd |-> fd, written |-> FALSE])
        /\ UNCHANGED <<chain, handed, sealObs, order, notary, storeVars, merkleVars>>

\* Bitacora::new_flight_data: storage.set_flight_data
CoSetFlightData(t) ==
    LET r == SetFlightData(storage, task[t].fd)
    IN  /\ task[t].pc = "set_flight_data"
        /\ storage' = r.store
        /\ IF r.res.val
           THEN Return(t, [op |-> "new_flight_data", kind |-> "Err",
                           err |-> "AlreadyExists(FlightData)",
                           fd |-> task[t].fd, written |-> FALSE])
           ELSE Goto(t, [task[t] EXCEPT !.pc = "get_latest_dataset"])
        /\ UNCHANGED <<chain, handed, sealObs, issued, order, notary, rng, ret, succ, merkleVars>>

\* Bitacora::new_flight_data: storage.get_latest_dataset
CoGetLatestDataset(t) ==
    LET r == MemGetLatestDataset(storage, task[t].device_id)
    IN  /\ task[t].pc = "get_latest_dataset"
        /\ IF ~r.ok
           THEN Return(t, [op |-> "new_flight_data", kind |-> "Err",
                           err |-> "StorageError",
                           fd |-> task[t].fd, written |-> FALSE])
           ELSE IF IsSome(r.val) /\ Unwrap(r.val).limit # Unwrap(r.val).count
           THEN Goto(t, [pc |-> "add_flight_data", op |-> "new_flight_data",
                         fd |-> task[t].fd, device_id |-> task[t].device_id,
                         dataset |-> Unwrap(r.val)])
           ELSE Goto(t, [task[t] EXCEPT !.pc = "new_dataset"])
        /\ UNCHANGED <<chain, handed, sealObs, issued, order, notary, storeVars, merkleVars>>

\* Bitacora::new_dataset: storage.new_dataset_id and storage.add_dataset
CoNewDataset(t) ==
    LET r == MemNewDataset(storage, DATASET_DEFAULT_LIMIT, task[t].device_id,
                           NewDatasetId(rng + 1))
    IN  /\ task[t].pc = "new_dataset"
        /\ rng' = rng + 1
        /\ storage' = r.store
        /\ IF r.res.ok
           THEN Goto(t, [pc |-> "add_flight_data", op |-> "new_flight_data",
                         fd |-> task[t].fd, device_id |-> task[t].device_id,
                         dataset |-> r.res.val])
           ELSE Return(t, [op |-> "new_flight_data", kind |-> "Err",
                           err |-> "StorageError",
                           fd |-> task[t].fd, written |-> FALSE])
        /\ UNCHANGED <<chain, handed, sealObs, issued, order, notary, ret, succ, merkleVars>>

\* a sealing test that fires one record early
SealDueEarly(dataset) == dataset.count + 1 >= dataset.limit

\* an always-true sealing test
SealDueAlways(dataset) == TRUE

\* Bitacora::new_flight_data: the test that sends a dataset to the timestamper
SealDue(dataset) == dataset.count = dataset.limit

\* Bitacora::new_flight_data: storage.add_flight_data, then the local count
CoAddFlightData(t) ==
    LET r == RelateFlightData(storage, task[t].fd, task[t].dataset.id)
        dataset == [task[t].dataset EXCEPT !.count = @ + 1]
    IN  /\ task[t].pc = "add_flight_data"
        /\ storage' = r.store
        /\ IF ~r.res.ok
           THEN /\ Return(t, [op |-> "new_flight_data", kind |-> "Err",
                              err |-> "StorageError",
                              fd |-> task[t].fd, written |-> FALSE])
                /\ UNCHANGED sealObs
           ELSE IF SealDue(dataset)
           THEN /\ Goto(t, [task[t] EXCEPT !.pc = "register_dataset",
                                           !.dataset = dataset])
                /\ sealObs' = Bump(sealObs, dataset.id)
           ELSE /\ Return(t, [op |-> "new_flight_data", kind |-> "Ok",
                              val |-> dataset, fd |-> task[t].fd, written |-> TRUE])
                /\ UNCHANGED sealObs
        /\ UNCHANGED <<chain, handed, issued, order, notary, rng, ret, succ, merkleVars>>

\* Bitacora::timestamp_dataset: timestamper.register_dataset, on the records
\* the storage lists for the dataset
CoRegisterDataset(t, outcome) ==
    /\ task[t].pc = "register_dataset"
    /\ LET ds == task[t].dataset
           flight_datas == MemGetDatasetFlightDatas(storage, ds.id).val
           reg == RegisterDataset(ds, task[t].device_id, flight_datas, Len(chain) + 1)
           tx == [call |-> "registerDataset", id |-> ds.id,
                  device_id |-> task[t].device_id, merkle_root |-> reg.merkle_root]
       IN  /\ handed' = Bump(handed, ds.id)
           /\ CASE outcome = "Confirmed" ->
                     /\ chain' = Append(chain, tx)
                     /\ Goto(t, [task[t] EXCEPT !.pc = "set_dataset",
                                                !.dataset.web3 = Some(reg.web3)])
                [] outcome = "SubmissionFailed" ->
                     /\ chain' = chain
                     /\ Return(t, [op |-> "new_flight_data", kind |-> "Err",
                                   err |-> "Web3Error",
                                   fd |-> task[t].fd, written |-> TRUE])
                [] outcome = "Panic" ->
                     /\ chain' \in {chain, Append(chain, tx)}
                     /\ Return(t, [op |-> "new_flight_data", kind |-> "Panic",
                                   fd |-> task[t].fd, written |-> TRUE])
    /\ UNCHANGED <<sealObs, issued, order, notary, storeVars, merkleVars>>

\* Bitacora::timestamp_dataset: storage.set_dataset, then the call returns
CoSetDataset(t) ==
    /\ task[t].pc = "set_dataset"
    /\ storage' = MemUpdateDatasetWeb3(storage, task[t].dataset)
    /\ Return(t, [op |-> "new_flight_data", kind |-> "Ok",
                  val |-> task[t].dataset, fd |-> task[t].fd, written |-> TRUE])
    /\ UNCHANGED <<chain, handed, sealObs, issued, order, notary, rng, ret, succ, merkleVars>>

\* no call is in flight
Quiescent == \A t \in Tasks : task[t].pc = "idle"

\* GET /flight_data/{id} for a stored record, served between ingestion calls,
\* once per record read: a second read of the same storage answers the same
HGetFlightData(f) ==
    LET fd == MemGetFlightData(storage, f).val
        r == GetFlightDataReceipt(storage, fd)
    IN  /\ Quiescent
        /\ f \in DOMAIN storage.fligth_data
        /\ result.kind = "none" \/ result.op \in {"new_device", "new_flight_data"}
        /\ result' = [op |-> "get_flight_data_receipt", fd |-> fd, kind |-> r.kind,
                      val |-> IF r.kind = "Ok" THEN r.val ELSE None,
                      err |-> IF r.kind = "Err" THEN r.err ELSE "",
                      dataset_id |-> IF f \in DOMAIN storage.flight_data_dataset
                                     THEN storage.flight_data_dataset[f] ELSE ""]
        /\ UNCHANGED <<task, chain, handed, sealObs, issued, order, notary, storeVars, merkleVars>>

\* POST /flight_data/{id}/verify with the proof the receipt just read carries
HVerifyFlightData ==
    /\ result.kind = "Ok" /\ result.op = "get_flight_data_receipt"
    /\ result' = [op |-> "verify", fd |-> result.fd, kind |-> "Ok",
                  dataset_id |-> result.dataset_id,
                  res |-> VerifyHandler(storage, result.dataset_id, result.fd,
                                        Unwrap(result.val.merkle_receipt).val)]
    /\ UNCHANGED <<task, chain, handed, sealObs, issued, order, notary, storeVars, merkleVars>>

Next ==
    \/ \E t \in Tasks, pk \in Registrable : CoNewDevice(t, pk)
    \/ \E t \in Tasks, o \in Outcomes : CoRegisterDevice(t, o)
    \/ \E t \in Tasks : CoSetDevice(t)
    \/ \E t \in Tasks, d \in DeviceIds, fresh \in BOOLEAN : CoNewFlightData(t, d, fresh)
    \/ \E t \in Tasks : CoSetFlightData(t)
    \/ \E t \in Tasks : CoGetLatestDataset(t)
    \/ \E t \in Tasks : CoNewDataset(t)
    \/ \E t \in Tasks : CoAddFlightData(t)
    \/ \E t \in Tasks, o \in Outcomes : CoRegisterDataset(t, o)
    \/ \E t \in Tasks : CoSetDataset(t)
    \/ \E f \in DOMAIN storage.fligth_data : HGetFlightData(f)
    \/ HVerifyFlightData

Spec == Init /\ [][Next]_vars

\* a call that has started runs on: the executor polls every task, and the
\* storage and the timestamper answer every call
TaskStep(t) ==
    \/ CoRegisterDevice(t, "SubmissionFailed")
    \/ CoRegisterDevice(t, "Panic")
    \/ CoRegisterDevice(t, "Confirmed")
    \/ CoSetDevice(t)
    \/ CoSetFlightData(t)
    \/ CoGetLatestDataset(t)
    \/ CoNewDataset(t)
    \/ CoAddFlightData(t)
    \/ CoRegisterDataset(t, "SubmissionFailed")
    \/ CoRegisterDataset(t, "Panic")
    \/ CoRegisterDataset(t, "Confirmed")
    \/ CoSetDataset(t)

FairSpec == Spec /\ \A t \in Tasks : WF_vars(TaskStep(t))

\* the steps of a call that are storage calls: synchronous code between the
\* awaits, which runs on whatever the timestamper does
StorageStep(t) ==
    \/ CoSetDevice(t)
    \/ CoSetFlightData(t)
    \/ CoGetLatestDataset(t)
    \/ CoNewDataset(t)
    \/ CoAddFlightData(t)
    \/ CoSetDataset(t)

\* the caller goes away while the call awaits the timestamper: the future of
\* new_flight_data or new_device is dropped at its only await, with the
\* transaction sent or not, and nothing after the await runs
CoCancel(t) ==
    /\ task[t].pc \in {"register_device", "register_dataset"}
    /\ IF task[t].pc = "register_device"
       THEN /\ chain' \in {chain, Append(chain, [call |-> "registerDevice",
                                                 id |-> task[t].device.id])}
            /\ handed' = handed
            /\ Return(t, [op |-> "new_device", kind |-> "Cancelled",
                          written |-> TRUE])
       ELSE LET ds == task[t].dataset
                flight_datas == MemGetDatasetFlightDatas(storage, ds.id).val
                reg == RegisterDataset(ds, task[t].device_id, flight_datas,
                                       Len(chain) + 1)
            IN  /\ chain' \in {chain,
                               Append(chain, [call |-> "registerDataset", id |-> ds.id,
                                              device_id |-> task[t].device_id,
                                              merkle_root |-> reg.merkle_root])}
                /\ handed' = Bump(handed, ds.id)
                /\ Return(t, [op |-> "new_flight_data", kind |-> "Cancelled",
                              fd |-> task[t].fd, written |-> TRUE])
    /\ UNCHANGED <<sealObs, issued, order, notary, storeVars, merkleVars>>

NextCancel ==
    \/ Next
    \/ \E t \in Tasks : CoCancel(t)

SpecCancel == Init /\ [][NextCancel]_vars

\* calls that are not cancelled run on
FairSpecCancel == SpecCancel /\ \A t \in Tasks : WF_vars(TaskStep(t))

\* ------------------------------------------------------- timestamper runs
MaxCalls == 3

\* the requests made to the timestamper: a device, or a full dataset of two
\* records with the records the storage lists for it
Requests ==
    {[op |-> "register_device", device |-> DeviceFrom(pk)] : pk \in PublicKeys}
    \cup
    {[op |-> "register_dataset",
      dataset |-> [id |-> DatasetIdOf(DeviceFrom(pk).id, 0), limit |-> 2,
                   count |-> 2, web3 |-> None],
      device_id |-> DeviceFrom(pk).id,
      flight_datas |-> <<RequestAt(DeviceFrom(pk).id, 1),
                         RequestAt(DeviceFrom(pk).id, 2)>>] : pk \in PublicKeys}

\* the contract call a request builds
TxOf(req) ==
    IF req.op = "register_device"
    THEN [call |-> "registerDevice", id |-> req.device.id]
    ELSE [call |-> "registerDataset", id |-> req.dataset.id,
          device_id |-> req.device_id,
          merkle_root |-> RegisterDataset(req.dataset, req.device_id,
                                          req.flight_datas, 0).merkle_root]

\* the Web3Info a confirmed request returns
Web3InfoOf(req, tx_hash) ==
    IF req.op = "register_device"
    THEN RegisterDevice(req.device, tx_hash)
    ELSE RegisterDataset(req.dataset, req.device_id, req.flight_datas, tx_hash).web3

InitTimestamper == InitMerkleVars /\ InitStoreVars /\ InitCoVars /\ order = "up"

\* a task calls register_device or register_dataset on the shared timestamper:
\* the call runs up to response.send()
TsCall(t, req) ==
    /\ task[t].pc = "idle"
    /\ Len(notary.calls) < MaxCalls
    /\ task' = [task EXCEPT ![t] = [pc |-> "send", req |-> req,
                                    call |-> Len(notary.calls) + 1]]
    /\ notary' = [notary EXCEPT !.calls = Append(@, req)]
    /\ result' = [kind |-> "none"]
    /\ UNCHANGED <<chain, handed, sealObs, issued, order, storeVars, merkleVars>>

\* response.send().await: the node takes the transaction, or refuses it
TsSend(t, accepted) ==
    /\ task[t].pc = "send"
    /\ IF accepted
       THEN /\ task' = [task EXCEPT ![t].pc = "pending_tx"]
            /\ notary' = [notary EXCEPT !.sent = Append(@, task[t].call)]
            /\ result' = result
       ELSE /\ task' = [task EXCEPT ![t] = Idle]
            /\ notary' = [notary EXCEPT
                             !.ended = MapPut(@, task[t].call, "SubmissionFailed")]
            /\ result' = [op |-> task[t].req.op, kind |-> "Err",
                          err |-> "SubmissionFailed", call |-> task[t].call]
    /\ UNCHANGED <<chain, handed, sealObs, issued, order, storeVars, merkleVars>>

\* pending_tx.await: a receipt, no receipt, or an error (both unimplemented!())
TsPendingTx(t, maybe_receipt) ==
    /\ task[t].pc = "pending_tx"
    /\ task' = [task EXCEPT ![t] = Idle]
    /\ IF maybe_receipt = "Some"
       THEN /\ chain' = Append(chain, TxOf(task[t].req))
            /\ notary' = [notary EXCEPT !.ended = MapPut(@, task[t].call, "Ok")]
            /\ result' = [op |-> task[t].req.op, kind |-> "Ok",
                          val |-> Web3InfoOf(task[t].req, Len(chain) + 1),
                          call |-> task[t].call]
       ELSE /\ chain' \in {chain, Append(chain, TxOf(task[t].req))}
            /\ notary' = [notary EXCEPT !.ended = MapPut(@, task[t].call, "Panic")]
            /\ result' = [op |-> task[t].req.op, kind |-> "Panic",
                          call |-> task[t].call]
    /\ UNCHANGED <<handed, sealObs, issued, order, storeVars, merkleVars>>

NextTimestamper ==
    \/ \E t \in Tasks, req \in Requests : TsCall(t, req)
    \/ \E t \in Tasks, accepted \in BOOLEAN : TsSend(t, accepted)
    \/ \E t \in Tasks, r \in {"Some", "None", "Err"} : TsPendingTx(t, r)

SpecTimestamper == InitTimestamper /\ [][NextTimestamper]_vars

\* ------------------------------------------------------------------ claims
\* the records the storage lists in a dataset
AssignedTo(ds_id) ==
    {f \in DOMAIN storage.flight_data_dataset : storage.flight_data_dataset[f] = ds_id}

\* C1: no dataset is seen to seal by two calls or handed to the timestamper
\* twice, and once no call is in flight every full dataset was seen to seal
\* by exactly one call.
C1_SealObservedOnce ==
    \A ds \in DOMAIN storage.datasets :
        /\ Count(sealObs, ds) <= 1
        /\ Count(handed, ds) <= 1
        /\ Quiescent /\ storage.datasets[ds].count = storage.datasets[ds].limit
              => Count(sealObs, ds) = 1

\* C2: the k-th successful new_flight_data of a device registered with limit L
\* returns a dataset with limit L, count ((k-1) mod L)+1 and the id
\* base58(sha256(device_id || BE(floor((k-1)/L), 4))).
C2_KthDataset ==
    ret.op = "new_flight_data" /\ ret.res.ok
        => LET k == succ[ret.device]
               L == storage.dataset_limits[ret.device]
           IN  /\ ret.res.val.limit = L
               /\ ret.res.val.count = ((k - 1) % L) + 1
               /\ ret.res.val.id = DatasetIdOf(ret.device, (k - 1) \div L)

\* C3: every stored FlightData is mapped to exactly one Dataset: it points to
\* a dataset that exists, and it is listed once, in that dataset only.
C3_TotalMapping ==
    \A f \in DOMAIN storage.fligth_data :
        /\ f \in DOMAIN storage.flight_data_dataset
        /\ storage.flight_data_dataset[f] \in DOMAIN storage.datasets
        /\ \A ds \in DOMAIN storage.datasets_flight_datas :
              Cardinality({i \in 1..Len(storage.datasets_flight_datas[ds]) :
                              storage.datasets_flight_datas[ds][i] = f})
                  = IF ds = storage.flight_data_dataset[f] THEN 1 ELSE 0

\* C4: every dataset has 0 <= count <= limit, and count is the number of
\* records assigned to it.
C4_CountIsCardinality ==
    \A ds \in DOMAIN storage.datasets :
        /\ 0 <= storage.datasets[ds].count
        /\ storage.datasets[ds].count <= storage.datasets[ds].limit
        /\ storage.datasets[ds].count = Len(storage.datasets_flight_datas[ds])
        /\ storage.datasets[ds].count = Cardinality(AssignedTo(ds))

\* a device has filled one dataset and started the next
C4_Witness ==
    \E d \in DOMAIN storage.devices_datasets :
        /\ Len(storage.devices_datasets[d]) = 2
        /\ storage.datasets[storage.devices_datasets[d][1]].count
              = storage.datasets[storage.devices_datasets[d][1]].limit
        /\ storage.datasets[storage.devices_datasets[d][1]].limit = MaxLimit
        /\ storage.datasets[storage.devices_datasets[d][2]].count = 1

\* the receipt the storage holds for a dataset, if any
StoredReceipt(ds) == Unwrap(storage.datasets[ds].web3).merkle_receipt

\* C5: a record of a notarized dataset gets a receipt with a proof, and the
\* verify endpoint answers true for that proof against the persisted root.
C5_ProofVerifies ==
    /\ result.kind # "none" /\ result.op = "get_flight_data_receipt"
       /\ result.dataset_id \in DOMAIN storage.datasets
       /\ storage.datasets[result.dataset_id].web3 # None
          => result.kind = "Ok"
    /\ result.kind # "none" /\ result.op = "verify"
          => result.res.status = "ok" /\ result.res.result

\* C6: every appended element has a proof, and the proof verifies against the root.
C6_RoundTrip ==
    mres.op = "proof" /\ (\E i \in 1..Len(appended) : appended[i] = mres.leaf)
        => /\ mres.kind = "Some"
           /\ IsSome(MtRoot(mt).val)
           /\ VerifyFromRoot(Unwrap(MtRoot(mt).val), mres.leaf, mres.val)


\* C7: a persisted receipt is the Root variant, and its value is the Merkle
\* root of the dataset's records in insertion order.
C7_RootPersisted ==
    \A ds \in DOMAIN storage.datasets :
        storage.datasets[ds].web3 # None
            => /\ StoredReceipt(ds) # None
               /\ Unwrap(StoredReceipt(ds)).variant = "Root"
               /\ Some(Unwrap(StoredReceipt(ds)).val)
                     = MtRoot(TreeOf(MemGetDatasetFlightDatas(storage, ds).val)).val

\* C8: a dataset with count < limit has no receipt.
C8_NoReceiptBeforeFull ==
    \A ds \in DOMAIN storage.datasets :
        storage.datasets[ds].count < storage.datasets[ds].limit
            => storage.datasets[ds].web3 = None

\* one dataset holds its receipt while the next one is open without one
C8_Witness ==
    \E a, b \in DOMAIN storage.datasets :
        /\ storage.datasets[a].count = storage.datasets[a].limit
        /\ storage.datasets[a].web3 # None
        /\ storage.datasets[b].count >= 1
        /\ storage.datasets[b].count < storage.datasets[b].limit
        /\ storage.datasets[b].web3 = None

\* C9: every dataset that reaches count = limit eventually has a receipt with
\* a Root merkle receipt in the storage.
C9_EventuallyNotarized ==
    \A k \in 1..MaxIngest :
        (/\ NewDatasetId(k) \in DOMAIN storage.datasets
         /\ storage.datasets[NewDatasetId(k)].count
               = storage.datasets[NewDatasetId(k)].limit)
        ~> (/\ NewDatasetId(k) \in DOMAIN storage.datasets
            /\ storage.datasets[NewDatasetId(k)].web3 # None
            /\ StoredReceipt(NewDatasetId(k)) # None
            /\ Unwrap(StoredReceipt(NewDatasetId(k))).variant = "Root")

\* C10: a new_flight_data call that fails after its record was stored and
\* added returns CompletedWithError, and the record stays stored.
C10_CompletedWithError ==
    result.kind # "none" /\ result.op = "new_flight_data" /\ result.written
        => /\ result.fd.id \in DOMAIN storage.fligth_data
           /\ result.kind # "Ok"
                 => result.kind = "Err" /\ result.err = "CompletedWithError"


\* C11: a new_flight_data call whose record id is already stored returns
\* AlreadyExists and changes nothing in the storage: the stored record, the
\* datasets and their counts, the device's dataset list and every index stay
\* as they were, and no dataset id is drawn.
C11_DuplicateLeavesAll ==
    [][(ret'.op = "new_flight_data" /\ ret'.fd.id \in DOMAIN storage.fligth_data)
          => /\ ret'.res = Err("AlreadyExists")
             /\ storage' = storage
             /\ rng' = rng
             /\ succ' = succ]_vars

\* a record of a dataset in use was sent again with another payload and refused
C11_Witness ==
    /\ ret.op = "new_flight_data"
    /\ ret.res = Err("AlreadyExists")
    /\ ret.fd.id \in DOMAIN storage.flight_data_dataset
    /\ storage.fligth_data[ret.fd.id] # ret.fd
    /\ storage.datasets[storage.flight_data_dataset[ret.fd.id]].count >= 1

\* C12: transactions are submitted in the order the requests were made: when
\* the transaction of a request is submitted, every request made before it
\* has had its transaction submitted, or was refused, before.
C12_SubmittedInCallOrder ==
    \A q \in 1..Len(notary.sent) :
        \A i \in 1..(notary.sent[q] - 1) :
            \/ \E p \in 1..(q - 1) : notary.sent[p] = i
            \/ i \in DOMAIN notary.ended /\ notary.ended[i] = "SubmissionFailed"

\* C13: at most one transaction is submitted and not yet answered.
C13_OneInFlight ==
    Cardinality({t \in Tasks : task[t].pc = "pending_tx"}) <= 1

\* C14: every request to the timestamper that has ended was answered
\* Ok(receipt) or Err(SubmissionFailed), also when the submission was refused
\* or the wait for the confirmation gave no receipt.
C14_AlwaysReplied ==
    \A i \in DOMAIN notary.ended : notary.ended[i] \in {"Ok", "SubmissionFailed"}

\* a call holds the dataset between its hand-over to the timestamper and the
\* write of the receipt
InHand(ds) ==
    \E t \in Tasks : /\ task[t].pc \in {"register_dataset", "set_dataset"}
                     /\ task[t].dataset.id = ds

\* the dataset was handed to the timestamper and the call ended without a receipt
FailedNotarization(ds) ==
    /\ Count(handed, ds) >= 1
    /\ ~InHand(ds)
    /\ storage.datasets[ds].web3 = None

C16_HashChainNoGaps ==
    [][\A d \in DOMAIN storage'.devices_datasets :
          /\ \A i \in 1..Len(storage'.devices_datasets[d]) :
                storage'.devices_datasets[d][i] = DatasetIdOf(d, i - 1)
          /\ d \in DOMAIN storage.devices_datasets
                => Len(storage'.devices_datasets[d])
                      \in {Len(storage.devices_datasets[d]),
                           Len(storage.devices_datasets[d]) + 1}]_vars

\* C17: of the datasets of a device only the latest may be non-full: every
\* earlier one has count = limit.
C17_OnlyLatestOpen ==
    \A d \in DOMAIN storage.devices_datasets :
        \A i \in 1..(Len(storage.devices_datasets[d]) - 1) :
            storage.datasets[storage.devices_datasets[d][i]].count
                = storage.datasets[storage.devices_datasets[d][i]].limit

\* C18: after new_device(d, L) succeeded and before any record of d is
\* ingested, get_latest_dataset(d.id) returns a dataset, with count 0, limit
\* L, no receipt and the id of d's counter 0.
C18_InitialDataset ==
    (/\ ret.op = "get_latest_dataset"
     /\ ret.device \in DOMAIN storage.devices
     /\ succ[ret.device] = 0)
        => /\ ret.res.ok
           /\ IsSome(ret.res.val)
           /\ Unwrap(ret.res.val).count = 0
           /\ Unwrap(ret.res.val).limit = storage.dataset_limits[ret.device]
           /\ Unwrap(ret.res.val).web3 = None
           /\ Unwrap(ret.res.val).id = DatasetIdOf(ret.device, 0)

C21_UnknownDeviceNoTrace ==
    [][(ret'.op = "new_flight_data" /\ ret'.device \notin DOMAIN storage.devices)
          => /\ ret'.res = Err("NotFound(Device)")
             /\ storage' = storage
             /\ rng' = rng]_vars

\* C22: in new_device the timestamper's register_device is called only after
\* storage.new_device succeeded for an id that was not stored, the device is
\* written back only after register_device succeeded, with its receipt, and
\* when register_device fails the device stays stored without receipt,
\* together with its initial dataset.
C22_NewDeviceOrder ==
    [][\A t \in Tasks :
          /\ (task[t].pc # "register_device" /\ task'[t].pc = "register_device")
                => /\ task[t].pc = "idle"
                   /\ task'[t].device.id \notin DOMAIN storage.devices
                   /\ task'[t].device.id \in DOMAIN storage'.devices
          /\ (task[t].pc # "set_device" /\ task'[t].pc = "set_device")
                => /\ task[t].pc = "register_device"
                   /\ IsSome(task'[t].device.web3)
                   /\ Len(chain') = Len(chain) + 1
                   /\ chain'[Len(chain')] = [call |-> "registerDevice",
                                             id |-> task[t].device.id]
          /\ (task[t].pc = "register_device" /\ task'[t].pc = "idle")
                => /\ task[t].device.id \in DOMAIN storage'.devices
                   /\ storage'.devices[task[t].device.id].web3 = None
                   /\ MemGetLatestDataset(storage', task[t].device.id).ok
                   /\ IsSome(MemGetLatestDataset(storage', task[t].device.id).val)]_vars

C24_NoProofOfAbsent ==
    (/\ mres.op = "proof"
     /\ \A i \in 1..Len(appended) : appended[i] # mres.leaf)
        => mres.kind = "None"

\* C25: on a tree to which nothing was appended root() returns none,
\* proof(e) returns none and verify(e, p) returns false, without a panic, and
\* the tree stays empty and its root not valid.
C25_EmptyTree ==
    appended = <<>>
        => /\ MtIsEmpty(mt)
           /\ ~IsRootValid(mt)
           /\ mres.op = "root" => mres.val = None
           /\ mres.op = "proof" => mres.kind = "None"
           /\ mres.op = "verify" => mres.val = FALSE

\* verify was called on the empty tree with the empty proof
C25_Witness ==
    /\ appended = <<>>
    /\ mres.op = "verify"
    /\ mres.proof = <<>>

\* C26: with the empty proof an element verifies against a root exactly when
\* the root is the hash of the element; the proof of the leaf of a
\* single-leaf tree is the empty sequence, and it verifies.
C26_EmptyProof ==
    /\ (mres.op = "verify" /\ mres.proof = <<>> /\ appended # <<>>)
          => (mres.val <=> MtRoot(mt).val = Some(Keccak256(mres.leaf)))
    /\ (Len(appended) = 1 /\ mres.op = "proof" /\ mres.leaf = appended[1])
          => mres.kind = "Some" /\ mres.val = <<>>
    /\ (Len(appended) = 1 /\ mres.op = "verify" /\ mres.leaf = appended[1]
          /\ mres.proof = <<>>)
          => mres.val

\* the leaf of a single-leaf tree was verified with the empty proof
C26_Witness ==
    /\ Len(appended) = 1
    /\ mres.op = "verify"
    /\ mres.leaf = appended[1]
    /\ mres.proof = <<>>
    /\ mres.val

\* C27: update_device changes nothing in the storage but the web3 field of a
\* device that is stored; for an id that is not stored it fails with
\* NotFound(Device) and stores nothing.
C27_UpdateDeviceFrame ==
    [][ret'.op = "update_device"
          => IF ret'.device \in DOMAIN storage.devices
             THEN storage' = [storage EXCEPT !.devices[ret'.device].web3
                                                = storage'.devices[ret'.device].web3]
             ELSE /\ ret'.res = Err("NotFound(Device)")
                  /\ storage' = storage]_vars

\* C28: a receipt stored on a device or a dataset is never removed, and
\* update_device and update_dataset_web3 called without a receipt fail with
\* NoOp and leave the storage as it was.
C28_ReceiptKept ==
    [][/\ \A d \in DOMAIN storage.devices :
             IsSome(storage.devices[d].web3)
                 => d \in DOMAIN storage'.devices /\ IsSome(storage'.devices[d].web3)
       /\ \A ds \in DOMAIN storage.datasets :
             IsSome(storage.datasets[ds].web3)
                 => ds \in DOMAIN storage'.datasets /\ IsSome(storage'.datasets[ds].web3)
       /\ (ret'.op \in {"update_device", "update_dataset_web3"} /\ ret'.web3 = None)
             => ret'.res = Err("NoOp") /\ storage' = storage]_vars

\* C29: get_dataset_flight_datas(dataset_id) returns exactly the records
\* assigned to the dataset, in ascending order of timestamp, whatever the
\* order of their ingestion.
C29_OrderedByTimestamp ==
    \A ds \in DOMAIN storage.datasets :
        LET r == MemGetDatasetFlightDatas(storage, ds)
        IN  /\ r.ok
            /\ {r.val[i].id : i \in 1..Len(r.val)} = AssignedTo(ds)
            /\ Len(r.val) = Cardinality(AssignedTo(ds))
            /\ \A i \in 1..(Len(r.val) - 1) :
                  r.val[i].timestamp < r.val[i + 1].timestamp

\* C30: records are immutable and never deleted. A successful ingestion
\* stores the record as given, and every stored record stays stored with the
\* same content through every later operation, refused duplicates and failed
\* calls included.
C30_RecordsImmutable ==
    [][/\ \A f \in DOMAIN storage.fligth_data :
             MemGetFlightData(storage', f) = Ok(storage.fligth_data[f])
       /\ (ret'.op = "new_flight_data" /\ ret'.res.ok)
             => MemGetFlightData(storage', ret'.fd.id) = Ok(ret'.fd)]_vars

\* a record of a full dataset was sent again with another payload after the
\* device had gone on to its next dataset, and is still read as first stored
C30_Witness ==
    /\ ret.op = "new_flight_data"
    /\ ~ret.res.ok
    /\ ret.fd.id \in DOMAIN storage.flight_data_dataset
    /\ MemGetFlightData(storage, ret.fd.id).val.payload = <<>>
    /\ ret.fd.payload # <<>>
    /\ Len(storage.devices_datasets[ret.device]) >= 2
    /\ storage.flight_data_dataset[ret.fd.id] = storage.devices_datasets[ret.device][1]

\* C31: a record whose ingestion call was cancelled after the record was
\* stored and added to a dataset stays stored, and its dataset eventually
\* holds a receipt, also when the cancelled call was the one that filled the
\* dataset.
C31_CancelledStillNotarized ==
    \A k \in 1..MaxIngest :
        LET f == RequestAt(DeviceFrom(<<1>>).id, k).id
        IN  (/\ result.kind = "Cancelled"
             /\ result.op = "new_flight_data"
             /\ result.fd.id = f)
            ~> (/\ f \in DOMAIN storage.fligth_data
                /\ f \in DOMAIN storage.flight_data_dataset
                /\ storage.datasets[storage.flight_data_dataset[f]].web3 # None)

\* the datasets of a device, as a set
DatasetsOf(S, device_id) ==
    {S.devices_datasets[device_id][i] : i \in 1..Len(S.devices_datasets[device_id])}

\* C32: the id of a record depends on its timestamp and its device only. A
\* request with the timestamp of a stored record of the same device has that
\* record's id, whatever its localization, payload and signature, is refused
\* with AlreadyExists, and the stored record is kept as it was.
C32_IdOfTimestampAndDevice ==
    [][\A f \in DOMAIN storage.flight_data_dataset :
          (/\ ret'.op = "new_flight_data"
           /\ ret'.device \in DOMAIN storage.devices_datasets
           /\ storage.flight_data_dataset[f] \in DatasetsOf(storage, ret'.device)
           /\ storage.fligth_data[f].timestamp = ret'.fd.timestamp)
              => /\ ret'.fd.id = f
                 /\ ret'.res = Err("AlreadyExists")
                 /\ f \in DOMAIN storage'.fligth_data
                 /\ storage'.fligth_data[f] = storage.fligth_data[f]]_vars

\* a device sent a timestamp again from another place, with another payload
\* and another signature, and was refused
C32_Witness ==
    /\ ret.op = "new_flight_data"
    /\ ret.res = Err("AlreadyExists")
    /\ ret.fd.id \in DOMAIN storage.flight_data_dataset
    /\ storage.flight_data_dataset[ret.fd.id] \in DatasetsOf(storage, ret.device)
    /\ storage.fligth_data[ret.fd.id].timestamp = ret.fd.timestamp
    /\ storage.fligth_data[ret.fd.id].localization # ret.fd.localization
    /\ storage.fligth_data[ret.fd.id].payload # ret.fd.payload
    /\ storage.fligth_data[ret.fd.id].signature # ret.fd.signature

\* C33: right after a successful new_flight_data(record, device) that
\* returned the dataset D, get_latest_dataset(device), get_dataset(D.id) and
\* get_flight_data_dataset(record.id) all answer D, and
\* get_dataset_flight_datas(D.id) lists the record, within a dataset and on
\* the call that opens a new one.
C33_ReadsAgreeAfterIngest ==
    (ret.op = "new_flight_data" /\ ret.res.ok)
        => LET D == ret.res.val
               listed == MemGetDatasetFlightDatas(storage, D.id)
           IN  /\ MemGetLatestDataset(storage, ret.device) = Ok(Some(D))
               /\ MemGetDataset(storage, D.id) = Ok(D)
               /\ MemGetFlightDataDataset(storage, ret.fd.id) = Ok(D)
               /\ listed.ok
               /\ \E i \in 1..Len(listed.val) : listed.val[i] = ret.fd

\* the call that opened a device's second dataset has just returned it
C33_Witness ==
    /\ ret.op = "new_flight_data"
    /\ ret.res.ok
    /\ ret.res.val.count = 1
    /\ ret.res.val.limit = MaxLimit
    /\ Len(storage.devices_datasets[ret.device]) = 2
    /\ storage.devices_datasets[ret.device][2] = ret.res.val.id

\* the hash h is part of what the hash r was computed from, at any depth
CoveredBy(h, r) ==
    \E k \in 1..(Len(r) - Len(h) + 1) : SubSeq(r, k, k + Len(h) - 1) = h

\* C34: after root() on a tree of n >= 1 appended elements the nodes buffer
\* holds 2n-1 hashes, the first n are the hashes of the elements in append
\* order, the last one is the root returned, and the root covers every leaf.
C34_NodesBuffer ==
    (mres.op = "root" /\ Len(appended) >= 1)
        => LET n == Len(appended)
           IN  /\ Len(mt.nodes) = 2 * n - 1
               /\ \A i \in 1..n : mt.nodes[i] = Keccak256(appended[i])
               /\ mres.val = Some(mt.nodes[Len(mt.nodes)])
               /\ \A i \in 1..n : CoveredBy(Keccak256(appended[i]), Unwrap(mres.val))

\* a tree to which the elements were appended in order, never read
FreshTree(elements) ==
    LET Built[i \in 0..Len(elements)] ==
            IF i = 0 THEN EmptyTree ELSE MtAppend(Built[i - 1], elements[i])
    IN  Built[Len(elements)]

\* C35: lazy recomputation is transparent. append leaves nodes untouched and
\* the tree not valid; root() on a tree that is not empty leaves it valid and
\* returns, whatever reads and appends came before, the root of a fresh tree
\* to which the same elements were appended in the same order.
C35_LazyTransparent ==
    [][/\ mres'.op = "append"
             => mt'.nodes = mt.nodes /\ ~IsRootValid(mt')
       /\ (mres'.op = "root" /\ appended # <<>>)
             => /\ IsRootValid(mt')
                /\ mres'.val = MtRoot(FreshTree(appended)).val]_vars

\* C36: no element outside the appended ones verifies against the root with
\* any proof; in particular the concatenation of two sibling hashes is not
\* accepted as a leaf.
C36_NoForgedLeaf ==
    (/\ mres.op = "verify"
     /\ \A i \in 1..Len(appended) : appended[i] # mres.leaf)
        => ~mres.val

\* C37: once a dataset has count = limit its records never change again: no
\* later new_flight_data adds a record to it, for any limit and in any order
\* of calls, and get_dataset_flight_datas answers the same records in the
\* same order, so the tree built from them on the read path has the leaves it
\* had when the dataset was sealed.
C37_SealedFrozen ==
    [][\A ds \in DOMAIN storage.datasets :
          storage.datasets[ds].count = storage.datasets[ds].limit
              => /\ ds \in DOMAIN storage'.datasets
                 /\ storage'.datasets[ds].count = storage.datasets[ds].count
                 /\ storage'.datasets[ds].limit = storage.datasets[ds].limit
                 /\ storage'.datasets_flight_datas[ds] = storage.datasets_flight_datas[ds]
                 /\ {f \in DOMAIN storage'.flight_data_dataset :
                        storage'.flight_data_dataset[f] = ds} = AssignedTo(ds)
                 /\ MemGetDatasetFlightDatas(storage', ds)
                       = MemGetDatasetFlightDatas(storage, ds)]_vars

\* a device registered with limit 1 has sealed two datasets and its third
\* record has just gone to a third one
C37_Witness ==
    /\ ret.op = "new_flight_data"
    /\ ret.res.ok
    /\ Len(storage.devices_datasets[ret.device]) = 3
    /\ ret.res.val.id = storage.devices_datasets[ret.device][3]
    /\ \A i \in 1..2 :
          storage.datasets[storage.devices_datasets[ret.device][i]].count
              = storage.datasets[storage.devices_datasets[ret.device][i]].limit

\* the thread waits for a lock that the other thread's guards keep from it
WaitsFor(t, u) ==
    /\ t # u
    /\ Running(t)
    /\ LET want == Want(task[t].pc)
       IN  IF want[2] = "r" THEN <<want[1], "w">> \in Held(u)
           ELSE <<want[1], "w">> \in Held(u) \/ <<want[1], "r">> \in Held(u)

\* C38: the in-memory storage calls never wait for each other's locks in a
\* cycle: there is no set of threads each of which waits for a lock held by
\* another thread of the set.
C38_NoCircularWait ==
    \A W \in (SUBSET Tasks) \ {{}} :
        ~(\A t \in W : \E u \in W : WaitsFor(t, u))

\* how many storage calls an ingestion at most still has to make
StepsLeft(pc) ==
    CASE pc = "set_flight_data" -> 4
      [] pc = "get_latest_dataset" -> 3
      [] pc = "new_dataset" -> 2
      [] pc = "add_flight_data" -> 1
      [] OTHER -> 0

DeviceView(S, device_id) ==
    LET mine == {f \in DOMAIN S.fligth_data :
                    \E ts \in Timestamps : f = FlightDataIdNew(ts, device_id)}
    IN  [device |-> IF device_id \in DOMAIN S.devices
                    THEN Some(S.devices[device_id]) ELSE None,
         limit |-> IF device_id \in DOMAIN S.dataset_limits
                   THEN Some(S.dataset_limits[device_id]) ELSE None,
         datasets |-> IF device_id \in DOMAIN S.devices_datasets
                      THEN [i \in 1..Len(S.devices_datasets[device_id]) |->
                               [dataset |-> MemGetDataset(S, S.devices_datasets[device_id][i]),
                                flight_datas |-> MemGetDatasetFlightDatas(
                                                     S, S.devices_datasets[device_id][i])]]
                      ELSE <<>>,
         records |-> [f \in mine |->
                         [fd |-> S.fligth_data[f],
                          dataset |-> IF f \in DOMAIN S.flight_data_dataset
                                      THEN Some(S.flight_data_dataset[f]) ELSE None]]]

\* C40: a new_flight_data or new_device call for one device leaves all the
\* storage holds of every other device as it was: device, limit, datasets,
\* counts, receipts and records.
C40_DeviceIsolation ==
    [][ret'.op \in {"new_flight_data", "new_device"}
          => \A b \in DeviceIds \ {ret'.device} :
                DeviceView(storage', b) = DeviceView(storage, b)]_vars

\* a record of one device was ingested while the other device holds a
\* dataset with a record and a receipt
C40_Witness ==
    /\ ret.op = "new_flight_data"
    /\ ret.res.ok
    /\ \E b \in DeviceIds \ {ret.device} :
          /\ b \in DOMAIN storage.devices_datasets
          /\ storage.devices_datasets[b] # <<>>
          /\ storage.datasets[storage.devices_datasets[b][1]].count >= 1
          /\ IsSome(storage.datasets[storage.devices_datasets[b][1]].web3)
====
